---- MODULE Spec2Model ----
(***************************************************************************)
(* Model of the OpenAPI tooling of wpe-capi-docs:                          *)
(*   - OpenAPIChangeDetector (scripts/detect-changes.js),                  *)
(*   - OpenAPIParser (scripts/parse-openapi.js),                           *)
(*   - ResponseExampleGenerator (scripts/utils/response-examples.js),      *)
(*   - DocumentationGenerator (scripts/generate-docs.js),                  *)
(*   - NavigationUpdater (scripts/update-navigation.js),                   *)
(*   - ContentValidator (scripts/validate-content.js).                     *)
(* The first two sources are concatenated in src/unnamed/part_004, the     *)
(* third is part of src/scripts/generate-docs.js.                          *)
(*                                                                         *)
(* A specification file on disk is a record with a field kind:            *)
(*   "missing"      the file does not exist,                               *)
(*   "unparseable"  its text is neither YAML nor JSON,                     *)
(*   "empty"        its text is empty (yaml.load gives undefined),         *)
(*   "object"       yaml.load gives an object; the other fields of the     *)
(*                  record are the object's top-level keys, a key that the *)
(*                  document does not have being absent from the record.   *)
(* Object tables (paths, a path item, a schema table) are sequences of     *)
(* <<key, value>> entries in the order of Object.entries.  The nested      *)
(* values the programs only compare or copy (a parameter list, a response  *)
(* table, a schema) are represented by their JSON text.                    *)
(***************************************************************************)
EXTENDS Integers, Sequences, FiniteSets, TLC

VARIABLES
  files,      \* the two specification files on disk, indexed 1..2
  changes,    \* OpenAPIChangeDetector: this.changes
  tmp,        \* /tmp/has-changes, /tmp/breaking-changes, /tmp/change-summary.json
  ret,        \* the value returned by the last detectChanges call
  pc,         \* "ready", or "exited" after process.exit(1)
  calls,      \* detectChanges calls made on the detector instance
  args,       \* <<oldSpecPath, newSpecPath>> of the last detectChanges call
  specPath,   \* OpenAPIParser: this.specPath (0 before construction)
  spec,       \* OpenAPIParser: this.spec
  endpoints,  \* OpenAPIParser: this.endpoints
  tags,       \* OpenAPIParser: this.tags (a Map, in insertion order)
  schemas,    \* OpenAPIParser: this.schemas (a Map, in insertion order)
  returns,    \* what each parseSpec call returned or threw, oldest first
  parses,     \* parseSpec calls made on the parser instance
  now,        \* the clock new Date() reads, in seconds
  run,        \* the last generateFromSchema call: its schema, value and time
  prevRun,    \* the generateFromSchema call before it
  processed,  \* the operation at hand and the last call made on it
  written,    \* DocumentationGenerator: the writeFile calls of generate()
  sidebar,    \* NavigationUpdater: the links of generateApiReferenceSection
  content,    \* the content directory ContentValidator scans
  stats,      \* ContentValidator: this.stats
  exitCode    \* ContentValidator: "none", or the code validate() ends with

detectorVars == <<changes, tmp, ret, pc, calls, args>>
parserVars == <<specPath, spec, endpoints, tags, schemas, returns, parses>>
synthVars == <<now, run, prevRun>>
toolVars == <<processed, written, sidebar, content, stats, exitCode>>
vars == <<files, changes, tmp, ret, pc, calls, args,
          specPath, spec, endpoints, tags, schemas, returns, parses,
          now, run, prevRun,
          processed, written, sidebar, content, stats, exitCode>>

(***************************************************************************)
(* Bounds.                                                                 *)
(***************************************************************************)
MaxCalls == 2     \* detectChanges calls on one detector instance
MaxParses == 2    \* parseSpec calls on one parser instance
MaxClock == 2     \* seconds the clock advances
StackLimit == 6   \* nested generateFromSchema calls the call stack holds

(***************************************************************************)
(* JavaScript values.                                                      *)
(***************************************************************************)
Undef == "undefined"
NullSpec == [kind |-> "null"]
UndefinedSpec == [kind |-> "undefined"]

Has(obj, key) == key \in DOMAIN obj
\* obj.key for a string-valued key (undefined when the key is absent)
Get(obj, key) == IF Has(obj, key) THEN obj[key] ELSE Undef
\* v || d for a string-valued v
OrElse(v, d) == IF v = Undef THEN d ELSE v
With(obj, key, v) == [k \in (DOMAIN obj) \cup {key} |-> IF k = key THEN v ELSE obj[k]]
Without(obj, key) == [k \in (DOMAIN obj) \ {key} |-> obj[k]]
Range(s) == {s[i] : i \in DOMAIN s}

HttpMethods == {"get", "post", "put", "patch", "delete", "head", "options"}

toUpperCase(m) ==
  CASE m = "get" -> "GET" [] m = "post" -> "POST" [] m = "put" -> "PUT"
    [] m = "patch" -> "PATCH" [] m = "delete" -> "DELETE"
    [] m = "head" -> "HEAD" [] m = "options" -> "OPTIONS"
    [] m = "trace" -> "TRACE" [] OTHER -> m

toLowerCase(s) ==
  CASE s = "GET" -> "get" [] s = "POST" -> "post" [] s = "PUT" -> "put"
    [] s = "PATCH" -> "patch" [] s = "DELETE" -> "delete"
    [] s = "HEAD" -> "head" [] s = "OPTIONS" -> "options"
    [] s = "Email" -> "email" [] OTHER -> s

(***************************************************************************)
(* The documents the files are drawn from.                                 *)
(***************************************************************************)
BaseOp == [operationId |-> "opA", summary |-> "s1",
           parameters |-> "[p1]", responses |-> "{r1}"]

OpSet ==
  {BaseOp}
  \cup {With(BaseOp, "summary", "s2"), Without(BaseOp, "summary")}
  \cup {With(BaseOp, "parameters", "[p2]"), With(BaseOp, "parameters", "[]"),
        Without(BaseOp, "parameters")}
  \cup {With(BaseOp, "requestBody", "{rb1}")}
  \cup {With(BaseOp, "responses", "{r2}"), Without(BaseOp, "responses")}
  \cup {With(BaseOp, "operationId", "opB"), Without(BaseOp, "operationId")}
  \cup {With(BaseOp, "description", "d1")}
  \cup {With(BaseOp, "tags", <<"t1">>), With(BaseOp, "tags", <<"t1", "t2">>),
        With(BaseOp, "tags", <<>>), With(BaseOp, "tags", <<"t1", "t1">>)}
  \cup {With(BaseOp, "operationId", "index")}
  \cup {With(With(BaseOp, "summary", "s2"), "responses", "{r2}"),
        With(Without(BaseOp, "parameters"), "summary", "s2")}

\* an operation whose parameters value is a scalar, not a list
MalformedOp == With(BaseOp, "parameters", "p1")

PathTables ==
  {<<>>}
  \cup {<< <<"/a", << <<"get", op>> >> >> >> : op \in OpSet}
  \cup {<< <<"/b", << <<"get", BaseOp>> >> >> >>}
  \cup {<< <<"/a", << <<"get", BaseOp>>, <<"post", BaseOp>> >> >> >>}
  \cup {<< <<"/a", << <<"get", BaseOp>>, <<"trace", BaseOp>> >> >> >>}
  \cup {<< <<"/a", << <<"trace", BaseOp>> >> >> >>}
  \cup {<< <<"/a", << <<"get", op>> >> >>, <<"/b", << <<"get", BaseOp>> >> >> >> :
          op \in {BaseOp, With(BaseOp, "tags", <<"t1", "t2">>), MalformedOp}}
  \cup {<< <<"/a", << <<"get", BaseOp>> >> >>, <<"/b", << <<"get", MalformedOp>> >> >> >>}
  \cup {<< <<"/sites/{site_id}", << <<"get", Without(BaseOp, "operationId")>> >> >> >>}

BaseInfo == [title |-> "API", version |-> "1.0"]
BaseDoc == [kind |-> "object", swagger |-> "2.0", info |-> BaseInfo,
            paths |-> << <<"/a", << <<"get", BaseOp>> >> >> >>]

SchemaTables == {<<>>, << <<"A", "{s1}">> >>, << <<"A", "{s2}">> >>,
                 << <<"B", "{s1}">> >>, << <<"A", "{s1}">>, <<"B", "{s1}">> >>}

Docs ==
  {[kind |-> "missing"], [kind |-> "unparseable"], [kind |-> "empty"]}
  \cup {With(BaseDoc, "paths", t) : t \in PathTables}
  \cup {With(BaseDoc, "info", With(BaseInfo, "title", "API 2")),
        With(BaseDoc, "info", With(BaseInfo, "version", "1.1")),
        Without(BaseDoc, "info")}
  \cup {With(BaseDoc, "definitions", t) : t \in {<<>>, << <<"A", "{s1}">> >>}}
  \cup {With(BaseDoc, "components", [schemas |-> t]) : t \in SchemaTables}
  \cup {Without(BaseDoc, "swagger"), Without(BaseDoc, "paths"),
        Without(Without(BaseDoc, "swagger"), "paths")}

(***************************************************************************)
(* OpenAPIChangeDetector.                                                  *)
(***************************************************************************)
\* constructor (metadata is {} until compareMetadata assigns it, and is not read
\* before that)
NewChanges ==
  [endpoints |-> [added |-> <<>>, removed |-> <<>>, modified |-> <<>>],
   schemas |-> [added |-> <<>>, removed |-> <<>>, modified |-> <<>>],
   breaking |-> <<>>,
   metadata |-> [version |-> [old |-> Undef, new |-> Undef, changed |-> FALSE],
                 title |-> [old |-> Undef, new |-> Undef, changed |-> FALSE]]]

\* yaml.load of the text of a parseable file
yamlLoad(file) == IF file.kind = "empty" THEN UndefinedSpec ELSE file

\* loadSpec: null for a file that is missing or cannot be parsed, otherwise
\* what yaml.load returns
loadSpec(file) ==
  CASE file.kind = "missing" -> NullSpec
    [] file.kind = "unparseable" -> NullSpec
    [] OTHER -> yamlLoad(file)

\* !spec
Falsy(s) == s.kind # "object"

RECURSIVE CD_itemEndpoints(_, _)
CD_itemEndpoints(path, pathItem) ==
  IF pathItem = <<>> THEN <<>>
  ELSE LET method == Head(pathItem)[1]
           operation == Head(pathItem)[2]
           here == IF method \in HttpMethods
                   THEN << [path |-> path,
                            method |-> toUpperCase(method),
                            operationId |-> Get(operation, "operationId"),
                            summary |-> Get(operation, "summary"),
                            parameters |-> OrElse(Get(operation, "parameters"), "[]"),
                            requestBody |-> Get(operation, "requestBody"),
                            responses |-> OrElse(Get(operation, "responses"), "{}")] >>
                   ELSE <<>>
       IN here \o CD_itemEndpoints(path, Tail(pathItem))

RECURSIVE CD_extractEndpoints(_)
CD_extractEndpoints(paths) ==
  IF paths = <<>> THEN <<>>
  ELSE CD_itemEndpoints(Head(paths)[1], Head(paths)[2])
         \o CD_extractEndpoints(Tail(paths))

\* JSON.stringify of an endpoint record: the keys in insertion order, a key
\* whose value is undefined being left out
EndpointKeys == <<"path", "method", "operationId", "summary",
                  "parameters", "requestBody", "responses">>
stringifyEndpoint(e) ==
  LET pairs == [i \in DOMAIN EndpointKeys |-> <<EndpointKeys[i], e[EndpointKeys[i]]>>]
  IN SelectSeq(pairs, LAMBDA p : p[2] # Undef)

endpointChanged(oldEndpoint, newEndpoint) ==
  stringifyEndpoint(oldEndpoint) # stringifyEndpoint(newEndpoint)

\* mutant: the facet tests chained with else-if, so only the first is reported
getEndpointChanges_elseIf(oldEndpoint, newEndpoint) ==
  IF oldEndpoint.summary # newEndpoint.summary THEN <<"summary">>
  ELSE IF oldEndpoint.parameters # newEndpoint.parameters THEN <<"parameters">>
  ELSE IF oldEndpoint.requestBody # newEndpoint.requestBody THEN <<"requestBody">>
  ELSE IF oldEndpoint.responses # newEndpoint.responses THEN <<"responses">>
  ELSE <<>>

getEndpointChanges(oldEndpoint, newEndpoint) ==
  (IF oldEndpoint.summary # newEndpoint.summary THEN <<"summary">> ELSE <<>>)
  \o (IF oldEndpoint.parameters # newEndpoint.parameters THEN <<"parameters">> ELSE <<>>)
  \o (IF oldEndpoint.requestBody # newEndpoint.requestBody THEN <<"requestBody">> ELSE <<>>)
  \o (IF oldEndpoint.responses # newEndpoint.responses THEN <<"responses">> ELSE <<>>)

\* mutant: endpoints matched by path alone
Found_pathOnly(list, e) == \E i \in DOMAIN list : list[i].path = e.path

\* list.find(x => x.path === e.path && x.method === e.method) is not undefined
Found(list, e) == \E i \in DOMAIN list : list[i].path = e.path /\ list[i].method = e.method
\* the element find returns
Find(list, e) ==
  list[CHOOSE i \in DOMAIN list :
         /\ list[i].path = e.path /\ list[i].method = e.method
         /\ \A j \in 1..(i - 1) : ~(list[j].path = e.path /\ list[j].method = e.method)]

RECURSIVE ModifiedOf(_, _)
ModifiedOf(oldEndpoints, newEndpoints) ==
  IF newEndpoints = <<>> THEN <<>>
  ELSE LET newEndpoint == Head(newEndpoints)
           here == IF Found(oldEndpoints, newEndpoint)
                      /\ endpointChanged(Find(oldEndpoints, newEndpoint), newEndpoint)
                   THEN << With(newEndpoint, "changes",
                                getEndpointChanges(Find(oldEndpoints, newEndpoint),
                                                   newEndpoint)) >>
                   ELSE <<>>
       IN here \o ModifiedOf(oldEndpoints, Tail(newEndpoints))

compareEndpoints(ch, oldSpec, newSpec) ==
  LET oldPaths == IF Has(oldSpec, "paths") THEN oldSpec.paths ELSE <<>>
      newPaths == IF Has(newSpec, "paths") THEN newSpec.paths ELSE <<>>
      oldEndpoints == CD_extractEndpoints(oldPaths)
      newEndpoints == CD_extractEndpoints(newPaths)
  IN [ch EXCEPT
        !.endpoints.added =
           @ \o SelectSeq(newEndpoints, LAMBDA e : ~Found(oldEndpoints, e)),
        !.endpoints.removed =
           @ \o SelectSeq(oldEndpoints, LAMBDA e : ~Found(newEndpoints, e)),
        !.endpoints.modified = @ \o ModifiedOf(oldEndpoints, newEndpoints)]

\* spec.components?.schemas || {}
ComponentSchemas(s) ==
  IF Has(s, "components") /\ Has(s.components, "schemas") THEN s.components.schemas
  ELSE <<>>

Keys(table) == [i \in DOMAIN table |-> table[i][1]]
Lookup(table, key) == table[CHOOSE i \in DOMAIN table : table[i][1] = key][2]

compareSchemas(ch, oldSpec, newSpec) ==
  LET oldSchemas == ComponentSchemas(oldSpec)
      newSchemas == ComponentSchemas(newSpec)
      oldSchemaNames == Keys(oldSchemas)
      newSchemaNames == Keys(newSchemas)
  IN [ch EXCEPT
        !.schemas.added =
           @ \o SelectSeq(newSchemaNames, LAMBDA n : n \notin Range(oldSchemaNames)),
        !.schemas.removed =
           @ \o SelectSeq(oldSchemaNames, LAMBDA n : n \notin Range(newSchemaNames)),
        !.schemas.modified =
           @ \o SelectSeq(newSchemaNames,
                          LAMBDA n : /\ n \in Range(oldSchemaNames)
                                     /\ Lookup(oldSchemas, n) # Lookup(newSchemas, n))]

\* spec.info?.key
InfoOf(s, key) == IF Has(s, "info") THEN Get(s.info, key) ELSE Undef

\* mutant: the old version compared with the new title
compareMetadata_versionVsTitle(ch, oldSpec, newSpec) ==
  [ch EXCEPT !.metadata =
     [version |-> [old |-> InfoOf(oldSpec, "version"),
                   new |-> InfoOf(newSpec, "version"),
                   changed |-> InfoOf(oldSpec, "version") # InfoOf(newSpec, "title")],
      title |-> [old |-> InfoOf(oldSpec, "title"),
                 new |-> InfoOf(newSpec, "title"),
                 changed |-> InfoOf(oldSpec, "title") # InfoOf(newSpec, "title")]]]

compareMetadata(ch, oldSpec, newSpec) ==
  [ch EXCEPT !.metadata =
     [version |-> [old |-> InfoOf(oldSpec, "version"),
                   new |-> InfoOf(newSpec, "version"),
                   changed |-> InfoOf(oldSpec, "version") # InfoOf(newSpec, "version")],
      title |-> [old |-> InfoOf(oldSpec, "title"),
                 new |-> InfoOf(newSpec, "title"),
                 changed |-> InfoOf(oldSpec, "title") # InfoOf(newSpec, "title")]]]

\* mutant: the first loop runs over the added endpoints
detectBreakingChanges_added(ch) ==
  [ch EXCEPT !.breaking =
     @ \o [i \in DOMAIN ch.endpoints.added |->
             [type |-> "removed_endpoint", severity |-> "high",
              method |-> ch.endpoints.added[i].method,
              path |-> ch.endpoints.added[i].path]]
       \o [i \in DOMAIN ch.schemas.removed |->
             [type |-> "removed_schema", severity |-> "medium",
              schema |-> ch.schemas.removed[i]]]]

\* detectBreakingChanges: one entry per removed endpoint (with its method and
\* path, which also make up the description), then one per removed schema
detectBreakingChanges(ch) ==
  [ch EXCEPT !.breaking =
     @ \o [i \in DOMAIN ch.endpoints.removed |->
             [type |-> "removed_endpoint", severity |-> "high",
              method |-> ch.endpoints.removed[i].method,
              path |-> ch.endpoints.removed[i].path]]
       \o [i \in DOMAIN ch.schemas.removed |->
             [type |-> "removed_schema", severity |-> "medium",
              schema |-> ch.schemas.removed[i]]]]

\* mutant: the title test left out
hasSignificantChanges_noTitle(ch) ==
  \/ Len(ch.endpoints.added) > 0
  \/ Len(ch.endpoints.removed) > 0
  \/ Len(ch.endpoints.modified) > 0
  \/ Len(ch.schemas.added) > 0
  \/ Len(ch.schemas.removed) > 0
  \/ Len(ch.schemas.modified) > 0
  \/ ch.metadata.version.changed

hasSignificantChanges(ch) ==
  \/ Len(ch.endpoints.added) > 0
  \/ Len(ch.endpoints.removed) > 0
  \/ Len(ch.endpoints.modified) > 0
  \/ Len(ch.schemas.added) > 0
  \/ Len(ch.schemas.removed) > 0
  \/ Len(ch.schemas.modified) > 0
  \/ ch.metadata.version.changed
  \/ ch.metadata.title.changed

\* generateSummary, without the timestamp and the details (which are this.changes)
generateSummary(ch) ==
  [kind |-> "report",
   hasChanges |-> hasSignificantChanges(ch),
   hasBreakingChanges |-> Len(ch.breaking) > 0,
   endpoints |-> [added |-> Len(ch.endpoints.added),
                  modified |-> Len(ch.endpoints.modified),
                  removed |-> Len(ch.endpoints.removed)],
   schemas |-> [added |-> Len(ch.schemas.added),
                modified |-> Len(ch.schemas.modified),
                removed |-> Len(ch.schemas.removed)],
   breakingChanges |-> Len(ch.breaking)]

\* the four comparison steps of detectChanges, in order
Compare(ch, oldSpec, newSpec) ==
  detectBreakingChanges(
    compareMetadata(
      compareSchemas(
        compareEndpoints(ch, oldSpec, newSpec), oldSpec, newSpec), oldSpec, newSpec))

toString(b) == IF b THEN "true" ELSE "false"

NoFiles == [hasChanges |-> "unwritten", breakingChanges |-> "unwritten",
            summary |-> [kind |-> "unwritten"]]
NoReturn == [kind |-> "none"]

\* detectChanges(oldSpecPath, newSpecPath): both specifications load
DetectChangesOk(oldSpecPath, newSpecPath) ==
  LET oldSpec == loadSpec(files[oldSpecPath])
      newSpec == loadSpec(files[newSpecPath])
      ch == Compare(changes, oldSpec, newSpec)
  IN /\ pc = "ready" /\ calls < MaxCalls
     /\ ~(Falsy(oldSpec) \/ Falsy(newSpec))
     /\ changes' = ch
     /\ tmp' = [hasChanges |-> toString(hasSignificantChanges(ch)),
                breakingChanges |-> toString(Len(ch.breaking) > 0),
                summary |-> generateSummary(ch)]
     /\ ret' = [kind |-> "result",
                hasChanges |-> hasSignificantChanges(ch),
                hasBreakingChanges |-> Len(ch.breaking) > 0]
     /\ calls' = calls + 1
     /\ args' = <<oldSpecPath, newSpecPath>>
     /\ UNCHANGED <<files, pc>>
     /\ UNCHANGED parserVars
     /\ UNCHANGED synthVars
     /\ UNCHANGED toolVars

\* detectChanges(oldSpecPath, newSpecPath): a specification does not load; the
\* catch block writes the fail-safe outputs and ends the process
DetectChangesFail(oldSpecPath, newSpecPath) ==
  LET oldSpec == loadSpec(files[oldSpecPath])
      newSpec == loadSpec(files[newSpecPath])
  IN /\ pc = "ready" /\ calls < MaxCalls
     /\ (Falsy(oldSpec) \/ Falsy(newSpec))
     /\ tmp' = [hasChanges |-> "true", breakingChanges |-> "false",
                summary |-> [kind |-> "error"]]
     /\ pc' = "exited"
     /\ ret' = NoReturn
     /\ calls' = calls + 1
     /\ args' = <<oldSpecPath, newSpecPath>>
     /\ UNCHANGED <<files, changes>>
     /\ UNCHANGED parserVars
     /\ UNCHANGED synthVars
     /\ UNCHANGED toolVars

(***************************************************************************)
(* OpenAPIParser.                                                          *)
(***************************************************************************)
\* Map.set(key, value): a new key goes last, an existing key keeps its place
MapSet(map, key, value) ==
  IF \E i \in DOMAIN map : map[i][1] = key
  THEN [i \in DOMAIN map |-> IF map[i][1] = key THEN <<key, value>> ELSE map[i]]
  ELSE Append(map, <<key, value>>)

RECURSIVE MapSetAll(_, _)
MapSetAll(map, table) ==
  IF table = <<>> THEN map
  ELSE MapSetAll(MapSet(map, Head(table)[1], Head(table)[2]), Tail(table))

\* extractSchemas: spec.definitions, then spec.components?.schemas
P_extractSchemas(map, s) ==
  LET withDefinitions == IF Has(s, "definitions") THEN MapSetAll(map, s.definitions)
                         ELSE map
  IN IF Has(s, "components") /\ Has(s.components, "schemas")
     THEN MapSetAll(withDefinitions, s.components.schemas)
     ELSE withDefinitions

\* kebabCase: a hyphen between a lower-case and an upper-case letter, runs of
\* blanks and underscores to a hyphen, then lower case
kebabCase(str) ==
  CASE str = "opA" -> "op-a"
    [] str = "opB" -> "op-b"
    [] OTHER -> str

\* endpoint.path with braces removed, every slash replaced by a hyphen and the
\* hyphens at both ends removed
pathSlug(path) ==
  CASE path = "/a" -> "a"
    [] path = "/b" -> "b"
    [] path = "/sites/{site_id}" -> "sites-site_id"
    [] OTHER -> path

generateSlug(endpoint) ==
  IF endpoint.operationId \notin {Undef, ""}
  THEN kebabCase(endpoint.operationId)
  ELSE toLowerCase(endpoint.method) \o "-" \o pathSlug(endpoint.path)

\* the endpoint object as processEndpoint first builds it: the fields that
\* identify and classify the operation
EndpointOf(path, method, operation) ==
  [path |-> path,
   method |-> toUpperCase(method),
   operationId |-> Get(operation, "operationId"),
   summary |-> OrElse(Get(operation, "summary"), ""),
   description |-> OrElse(Get(operation, "description"), ""),
   tags |-> IF Has(operation, "tags") THEN operation.tags ELSE <<"untagged">>]

\* processEndpoint: the endpoint object with its slug
P_processEndpoint(path, method, operation) ==
  With(EndpointOf(path, method, operation), "slug",
       generateSlug(EndpointOf(path, method, operation)))

\* the JSON texts of the model that are lists
IsArray(v) == v \in {"[]", "[p1]", "[p2]"}

\* processParameters throws: parameters.forEach is not a function
processParametersThrows(parameters) == ~IsArray(parameters)

\* processEndpoint throws (operation.parameters || [] goes to processParameters)
processEndpointThrows(operation) ==
  processParametersThrows(OrElse(Get(operation, "parameters"), "[]"))

\* processEndpoint throws for an operation of the path item
ItemThrows(pathItem) ==
  \E j \in DOMAIN pathItem :
     pathItem[j][1] \in HttpMethods /\ processEndpointThrows(pathItem[j][2])

\* extractEndpoints throws: nothing catches what processEndpoint throws
ExtractThrows(paths) == \E i \in DOMAIN paths : ItemThrows(paths[i][2])

\* mutant: every key of the path item taken for an operation
RECURSIVE P_itemEndpoints_noFilter(_, _)
P_itemEndpoints_noFilter(path, pathItem) ==
  IF pathItem = <<>> THEN <<>>
  ELSE <<P_processEndpoint(path, Head(pathItem)[1], Head(pathItem)[2])>>
         \o P_itemEndpoints_noFilter(path, Tail(pathItem))

\* the inner loop of extractEndpoints: the endpoints pushed for a path item,
\* up to the operation processEndpoint throws on
RECURSIVE P_itemEndpoints(_, _)
P_itemEndpoints(path, pathItem) ==
  IF pathItem = <<>> THEN <<>>
  ELSE LET method == Head(pathItem)[1]
           operation == Head(pathItem)[2]
       IN IF method \in HttpMethods
          THEN IF processEndpointThrows(operation) THEN <<>>
               ELSE <<P_processEndpoint(path, method, operation)>>
                      \o P_itemEndpoints(path, Tail(pathItem))
          ELSE P_itemEndpoints(path, Tail(pathItem))

\* extractEndpoints: pushes onto this.endpoints, up to the operation
\* processEndpoint throws on
RECURSIVE P_extractEndpoints(_, _)
P_extractEndpoints(eps, paths) ==
  IF paths = <<>> THEN eps
  ELSE IF ItemThrows(Head(paths)[2])
       THEN eps \o P_itemEndpoints(Head(paths)[1], Head(paths)[2])
       ELSE P_extractEndpoints(eps \o P_itemEndpoints(Head(paths)[1], Head(paths)[2]),
                               Tail(paths))

\* this.tags.get(tag).endpoints.push(endpoint), creating the group when needed
PushToTag(map, tag, endpoint) ==
  IF \E i \in DOMAIN map : map[i].name = tag
  THEN [i \in DOMAIN map |->
          IF map[i].name = tag
          THEN [map[i] EXCEPT !.endpoints = Append(@, endpoint)]
          ELSE map[i]]
  ELSE Append(map, [name |-> tag, endpoints |-> <<endpoint>>])

RECURSIVE PushToTags(_, _, _)
PushToTags(map, tagList, endpoint) ==
  IF tagList = <<>> THEN map
  ELSE PushToTags(PushToTag(map, Head(tagList), endpoint), Tail(tagList), endpoint)

\* organizeByTags: every endpoint of this.endpoints, every tag of it
RECURSIVE organizeByTags(_, _)
organizeByTags(map, eps) ==
  IF eps = <<>> THEN map
  ELSE organizeByTags(PushToTags(map, Head(eps).tags, Head(eps)), Tail(eps))

getStructuredData(s, eps, tagMap, schemaMap) ==
  [kind |-> "model",
   spec |-> [title |-> Get(s.info, "title"), version |-> Get(s.info, "version")],
   endpoints |-> eps,
   tags |-> tagMap,
   schemas |-> schemaMap,
   stats |-> [totalEndpoints |-> Len(eps),
              totalTags |-> Len(tagMap),
              totalSchemas |-> Len(schemaMap)]]

Thrown(message) == [kind |-> "throw", message |-> message]

\* new OpenAPIParser(specPath)
NewParser(p) ==
  /\ specPath = 0
  /\ specPath' = p
  /\ spec' = NullSpec
  /\ endpoints' = <<>>
  /\ tags' = <<>>
  /\ schemas' = <<>>
  /\ UNCHANGED <<returns, parses, files>>
  /\ UNCHANGED detectorVars
  /\ UNCHANGED synthVars
  /\ UNCHANGED toolVars

\* parseSpec: fs.readFile or yaml.load throws
ParseSpecUnreadable ==
  /\ specPath # 0 /\ parses < MaxParses
  /\ files[specPath].kind \in {"missing", "unparseable"}
  /\ returns' = Append(returns, Thrown(files[specPath].kind))
  /\ parses' = parses + 1
  /\ UNCHANGED <<specPath, spec, endpoints, tags, schemas, files>>
  /\ UNCHANGED detectorVars
  /\ UNCHANGED synthVars
  /\ UNCHANGED toolVars

\* parseSpec: this.spec is assigned, then this.spec.info.title or validateSpec throws
ParseSpecInvalid ==
  LET loaded == yamlLoad(files[specPath])
      message == CASE Falsy(loaded) \/ ~Has(loaded, "info") -> "TypeError"
                   [] ~Has(loaded, "swagger") /\ ~Has(loaded, "openapi") ->
                        "missing version field"
                   [] OTHER -> "missing paths"
  IN /\ specPath # 0 /\ parses < MaxParses
     /\ files[specPath].kind \notin {"missing", "unparseable"}
     /\ \/ Falsy(loaded)
        \/ ~Has(loaded, "info")
        \/ ~Has(loaded, "swagger") /\ ~Has(loaded, "openapi")
        \/ ~Has(loaded, "paths")
     /\ spec' = loaded
     /\ returns' = Append(returns, Thrown(message))
     /\ parses' = parses + 1
     /\ UNCHANGED <<specPath, endpoints, tags, schemas, files>>
     /\ UNCHANGED detectorVars
     /\ UNCHANGED synthVars
     /\ UNCHANGED toolVars

\* parseSpec: the specification is read, validated and extracted
ParseSpecOk ==
  LET loaded == yamlLoad(files[specPath])
      schemaMap == P_extractSchemas(schemas, loaded)
      eps == P_extractEndpoints(endpoints, loaded.paths)
      tagMap == organizeByTags(tags, eps)
  IN /\ specPath # 0 /\ parses < MaxParses
     /\ files[specPath].kind = "object"
     /\ Has(loaded, "info")
     /\ Has(loaded, "swagger") \/ Has(loaded, "openapi")
     /\ Has(loaded, "paths")
     /\ ~ExtractThrows(loaded.paths)
     /\ spec' = loaded
     /\ schemas' = schemaMap
     /\ endpoints' = eps
     /\ tags' = tagMap
     /\ returns' = Append(returns, getStructuredData(loaded, eps, tagMap, schemaMap))
     /\ parses' = parses + 1
     /\ UNCHANGED <<specPath, files>>
     /\ UNCHANGED detectorVars
     /\ UNCHANGED synthVars
     /\ UNCHANGED toolVars

\* parseSpec: processEndpoint throws inside extractEndpoints; the endpoints
\* pushed before it stay on this.endpoints, organizeByTags is not reached
ParseSpecExtractThrows ==
  LET loaded == yamlLoad(files[specPath])
  IN /\ specPath # 0 /\ parses < MaxParses
     /\ files[specPath].kind = "object"
     /\ Has(loaded, "info")
     /\ Has(loaded, "swagger") \/ Has(loaded, "openapi")
     /\ Has(loaded, "paths")
     /\ ExtractThrows(loaded.paths)
     /\ spec' = loaded
     /\ schemas' = P_extractSchemas(schemas, loaded)
     /\ endpoints' = P_extractEndpoints(endpoints, loaded.paths)
     /\ returns' = Append(returns, Thrown("TypeError"))
     /\ parses' = parses + 1
     /\ UNCHANGED <<specPath, tags, files>>
     /\ UNCHANGED detectorVars
     /\ UNCHANGED synthVars
     /\ UNCHANGED toolVars

(***************************************************************************)
(* ResponseExampleGenerator.                                               *)
(* A schema node is a record of the keys the node has ("ref" for $ref,     *)
(* "xNullable" for x-nullable); properties is the sequence of              *)
(* <<name, schema>> entries in the order of Object.entries.  A JavaScript  *)
(* value is a record tagged by its type; numbers are kept as their decimal *)
(* text.  What a call throws is a value tagged "error".                    *)
(***************************************************************************)
Null == [t |-> "null"]
Str(s) == [t |-> "str", s |-> s]
Num(n) == [t |-> "num", n |-> n]
Bool(b) == [t |-> "bool", b |-> b]
Obj(props) == [t |-> "obj", props |-> props]
Arr(elems) == [t |-> "arr", elems |-> elems]
Err(name) == [t |-> "error", error |-> name]
IsError(v) == v.t = "error"

\* the truthiness of a value
Truthy(v) ==
  CASE v.t = "null" -> FALSE
    [] v.t = "str" -> v.s # ""
    [] v.t = "num" -> v.n # "0"
    [] v.t = "bool" -> v.b
    [] OTHER -> TRUE

\* a schema that is null or undefined
NoSchema == [isNull |-> TRUE]

Ref(name) == [ref |-> "#/definitions/" \o name]

\* this.definitions = spec.definitions || {}: a definition with two string
\* properties, an alias of it, a definition that refers to itself directly,
\* one that refers to itself through a property, and two that refer to each
\* other
definitions ==
  [User |-> [type |-> "object",
             properties |-> << <<"id", [type |-> "string", format |-> "uuid"]>>,
                               <<"email", [type |-> "string"]>> >>,
             required |-> <<"id">>],
   Alias |-> Ref("User"),
   Self |-> Ref("Self"),
   Node |-> [type |-> "object", properties |-> << <<"next", Ref("Node")>> >>],
   Ping |-> [type |-> "array", items |-> Ref("Pong")],
   Pong |-> [type |-> "object", properties |-> << <<"ping", Ref("Ping")>> >>]]

\* schema.$ref.replace('#/definitions/', '')
refName(ref) ==
  CASE ref = "#/definitions/User" -> "User"
    [] ref = "#/definitions/Alias" -> "Alias"
    [] ref = "#/definitions/Self" -> "Self"
    [] ref = "#/definitions/Node" -> "Node"
    [] ref = "#/definitions/Ping" -> "Ping"
    [] ref = "#/definitions/Pong" -> "Pong"
    [] ref = "#/definitions/Missing" -> "Missing"
    [] OTHER -> ref

\* name.includes(keyword), for the property names of the model
includes(name, keyword) ==
  <<name, keyword>> \in {<<"email", "email">>, <<"nickname", "name">>,
                         <<"domain", "domain">>, <<"status", "status">>}

\* new Date().toISOString() at a clock of t seconds, t < 10
toISOString(t) == "1970-01-01T00:00:0" \o ToString(t) \o ".000Z"

generateUUID == "a1b2c3d4-e5f6-7890-abcd-ef1234567890"

generateStringByName(schema, propName) ==
  LET name == toLowerCase(propName)
  IN IF includes(name, "email") THEN "user@example.com"
     ELSE IF includes(name, "phone") THEN "1234567890"
     ELSE IF includes(name, "name") /\ ~includes(name, "first") /\ ~includes(name, "last")
          THEN "Example Name"
     ELSE IF includes(name, "first_name") \/ includes(name, "firstname") THEN "John"
     ELSE IF includes(name, "last_name") \/ includes(name, "lastname") THEN "Doe"
     ELSE IF includes(name, "description") THEN "Example description"
     ELSE IF includes(name, "message") THEN "Operation completed successfully"
     ELSE IF includes(name, "url") THEN "https://example.com"
     ELSE IF includes(name, "domain") THEN "example.com"
     ELSE IF includes(name, "cname") THEN "example.wpengine.com"
     ELSE IF includes(name, "version") THEN "1.0.0"
     ELSE IF includes(name, "status") THEN "active"
     ELSE IF includes(name, "environment") THEN "production"
     ELSE IF includes(name, "role") THEN "full"
     ELSE IF includes(name, "fingerprint")
          THEN "a1:b2:c3:d4:e5:f6:a7:b8:c9:d0:e1:f2:a3:b4:c5:d6"
     ELSE IF includes(name, "comment") THEN "user@example.com"
     ELSE IF includes(name, "public_key")
          THEN "ssh-rsa AAAAB3NzaC1yc2EAAAADAQABAAABAQ... user@example.com"
     ELSE "example-value"

\* generateStringExample; every call of generateStringByName passes the schema
\* only, so propName takes its default ''
generateStringExample(schema, t) ==
  IF Has(schema, "example") THEN schema.example
  ELSE IF Has(schema, "format")
  THEN CASE schema.format = "uuid" -> Str(generateUUID)
         [] schema.format = "email" -> Str("user@example.com")
         [] schema.format = "date-time" -> Str(toISOString(t))
         [] schema.format = "uri" -> Str("https://api.wpengineapi.com/v1/example")
         [] OTHER -> Str(generateStringByName(schema, ""))
  ELSE IF Has(schema, "enum") /\ Len(schema.enum) > 0 THEN Str(schema.enum[1])
  ELSE Str(generateStringByName(schema, ""))

generateNumberExample(schema) ==
  IF Has(schema, "example") THEN schema.example
  ELSE IF Has(schema, "minimum") THEN Num(schema.minimum)
  ELSE IF schema.type = "integer" THEN Num("100") ELSE Num("10.5")

\* mutant: no property is required
isRequired_never(schema, propName) == FALSE

isRequired(schema, propName) ==
  Has(schema, "required") /\ propName \in Range(schema.required)

xNullable(propSchema) == Has(propSchema, "xNullable") /\ propSchema.xNullable

RECURSIVE generateFromSchema(_, _, _)
RECURSIVE generateProperties(_, _, _, _)

\* the loop of generateObjectExample over the entries props of
\* schema.properties
generateProperties(schema, props, depth, t) ==
  IF props = <<>> THEN Obj(<<>>)
  ELSE LET propName == Head(props)[1]
           propSchema == Head(props)[2]
       IN IF xNullable(propSchema) /\ ~isRequired(schema, propName)
          THEN generateProperties(schema, Tail(props), depth, t)
          ELSE LET v == generateFromSchema(propSchema, depth + 1, t)
                   rest == generateProperties(schema, Tail(props), depth, t)
               IN IF IsError(v) THEN v
                  ELSE IF IsError(rest) THEN rest
                  ELSE Obj(<< <<propName, v>> >> \o rest.props)

generateObjectExample(schema, depth, t) ==
  IF Has(schema, "properties")
  THEN generateProperties(schema, schema.properties, depth, t)
  ELSE Obj(<<>>)

generateArrayExample(schema, depth, t) ==
  IF Has(schema, "items") /\ schema.items # NoSchema
  THEN LET itemExample == generateFromSchema(schema.items, depth + 1, t)
       IN IF IsError(itemExample) THEN itemExample
          ELSE IF Truthy(itemExample) THEN Arr(<<itemExample>>)
          ELSE Arr(<<>>)
  ELSE Arr(<<>>)

\* generateFromSchema at call depth depth and clock t; the call that does not
\* fit on the call stack throws a RangeError, which nothing catches
generateFromSchema(schema, depth, t) ==
  IF depth > StackLimit THEN Err("RangeError")
  ELSE IF schema = NoSchema THEN Null
  ELSE IF Has(schema, "ref")
  THEN IF refName(schema.ref) \in DOMAIN definitions
       THEN generateFromSchema(definitions[refName(schema.ref)], depth + 1, t)
       ELSE Null
  ELSE LET type == Get(schema, "type")
       IN CASE type = "object" -> generateObjectExample(schema, depth, t)
            [] type = "array" -> generateArrayExample(schema, depth, t)
            [] type = "string" -> generateStringExample(schema, t)
            [] type \in {"integer", "number"} -> generateNumberExample(schema)
            [] type = "boolean" ->
                 IF Has(schema, "example") THEN schema.example ELSE Bool(TRUE)
            [] OTHER ->
                 IF Has(schema, "example") /\ Truthy(schema.example)
                 THEN schema.example ELSE Null

\* the schemas generateFromSchema is called on
StringSchemas ==
  {[type |-> "string"],
   [type |-> "string", example |-> Str("x")],
   [type |-> "string", example |-> Str("")],
   [type |-> "string", enum |-> <<"active", "inactive">>],
   [type |-> "string", enum |-> <<>>],
   [type |-> "string", format |-> "hostname", enum |-> <<"active", "inactive">>],
   [type |-> "string", format |-> "uuid", enum |-> <<"active", "inactive">>]}
  \cup {[type |-> "string", format |-> f] :
          f \in {"uuid", "email", "date-time", "uri", "hostname"}}

ScalarSchemas ==
  {[type |-> "integer"], [type |-> "number"],
   [type |-> "integer", minimum |-> "0"], [type |-> "integer", minimum |-> "5"],
   [type |-> "number", example |-> Num("7")],
   [type |-> "boolean"], [type |-> "boolean", example |-> Bool(FALSE)],
   [description |-> "d"], [description |-> "d", example |-> Str("e")],
   NoSchema}

RefSchemas ==
  {Ref(name) : name \in {"User", "Alias", "Self", "Node", "Ping", "Missing"}}
  \cup {[ref |-> "#/components/schemas/User"]}

ObjectSchemas ==
  {[type |-> "object"],
   [type |-> "object",
    properties |-> << <<"id", [type |-> "string", format |-> "uuid"]>>,
                      <<"nickname", [type |-> "string", xNullable |-> TRUE]>> >>,
    required |-> <<"id">>],
   [type |-> "object",
    properties |-> << <<"id", [type |-> "string", xNullable |-> TRUE]>>,
                      <<"nickname", [type |-> "string", xNullable |-> TRUE]>>,
                      <<"status", [type |-> "string", xNullable |-> FALSE]>> >>,
    required |-> <<"id">>],
   [type |-> "object",
    properties |-> << <<"nickname", [type |-> "string", xNullable |-> TRUE]>> >>],
   [type |-> "object",
    properties |-> << <<"id", [type |-> "string", format |-> "uuid"]>>,
                      <<"nickname", [type |-> "string", nullable |-> TRUE]>> >>,
    required |-> <<"id">>],
   [type |-> "object",
    properties |-> << <<"Email", [type |-> "string"]>>,
                      <<"domain", [type |-> "string"]>>,
                      <<"id", [type |-> "string"]>>,
                      <<"status", [type |-> "string", enum |-> <<"on", "off">>]>> >>],
   [type |-> "object",
    properties |-> << <<"id", [type |-> "string"]>>,
                      <<"owner", Ref("Missing")>> >>]}

ArraySchemas ==
  {[type |-> "array"]}
  \cup {[type |-> "array", items |-> items] :
          items \in {[type |-> "string"], [type |-> "string", example |-> Str("")],
                     [type |-> "integer", minimum |-> "0"], [type |-> "integer"],
                     [type |-> "boolean", example |-> Bool(FALSE)],
                     Ref("Alias"), Ref("Missing"), NoSchema}}

Schemas == StringSchemas \cup ScalarSchemas \cup RefSchemas \cup ObjectSchemas
             \cup ArraySchemas

NoRun == [none |-> TRUE]

\* the clock advances
Tick ==
  /\ now < MaxClock
  /\ now' = now + 1
  /\ UNCHANGED <<run, prevRun, files>>
  /\ UNCHANGED detectorVars
  /\ UNCHANGED parserVars
  /\ UNCHANGED toolVars

\* generateFromSchema(schema), called from outside the generator
Generate(schema) ==
  /\ run' = [schema |-> schema,
             value |-> generateFromSchema(schema, 0, now),
             at |-> now]
  /\ prevRun' = run
  /\ UNCHANGED <<now, files>>
  /\ UNCHANGED detectorVars
  /\ UNCHANGED parserVars
  /\ UNCHANGED toolVars

\* no operation at hand, no processParameters or processRequestBody call made
NoCall == [fn |-> "none"]
\* generate() not run yet
NotGenerated == [specPath |-> 0, files |-> <<>>, exit |-> "none"]
\* update() not run yet
NotUpdated == [specPath |-> 0, links |-> <<>>, exit |-> "none"]
\* ContentValidator constructor: this.stats
NewStats ==
  [filesChecked |-> 0, errors |-> <<>>, internalLinks |-> <<>>, existingFiles |-> {}]

(***************************************************************************)
(* DocumentationGenerator and NavigationUpdater.  Both construct a parser  *)
(* of their own and call parseSpec once.  A file written is its directory  *)
(* below outputDir, its name and its extension; a link is the sequence of  *)
(* the segments of its path.                                               *)
(***************************************************************************)
\* new OpenAPIParser(specPath).parseSpec(): what a new parser returns or throws
parseSpec(file) ==
  IF file.kind \in {"missing", "unparseable"} THEN Thrown(file.kind)
  ELSE LET loaded == yamlLoad(file)
       IN IF Falsy(loaded) \/ ~Has(loaded, "info") THEN Thrown("TypeError")
          ELSE IF ~Has(loaded, "swagger") /\ ~Has(loaded, "openapi")
          THEN Thrown("missing version field")
          ELSE IF ~Has(loaded, "paths") THEN Thrown("missing paths")
          ELSE IF ExtractThrows(loaded.paths) THEN Thrown("TypeError")
          ELSE LET eps == P_extractEndpoints(<<>>, loaded.paths)
               IN getStructuredData(loaded, eps, organizeByTags(<<>>, eps),
                                    P_extractSchemas(<<>>, loaded))

\* generateEndpointDoc: the file of an endpoint, under its first tag
EndpointFile(endpoint) ==
  [dir |-> <<kebabCase(IF endpoint.tags # <<>> THEN endpoint.tags[1] ELSE "untagged")>>,
   name |-> endpoint.slug,
   ext |-> "mdx",
   by |-> "generateEndpointDoc"]

\* generateSectionIndex: the index page of a tag group
SectionIndexFile(tag) ==
  [dir |-> <<kebabCase(tag.name)>>, name |-> "index", ext |-> "mdx",
   by |-> "generateSectionIndex"]

\* generate(): the writeFile calls, in order
GeneratedFiles(data) ==
  [i \in DOMAIN data.endpoints |-> EndpointFile(data.endpoints[i])]
  \o [i \in DOMAIN data.tags |-> SectionIndexFile(data.tags[i])]
  \o << [dir |-> <<>>, name |-> "index", ext |-> "mdx", by |-> "generateMainIndex"],
        [dir |-> <<>>, name |-> "all", ext |-> "mdx", by |-> "generateAllEndpointsPage"] >>

\* DocumentationGenerator.generate() on the specification file p
GenerateDocs(p) ==
  LET data == parseSpec(files[p])
  IN /\ written' = IF data.kind = "throw"
                   THEN [specPath |-> p, files |-> <<>>, exit |-> "1"]
                   ELSE [specPath |-> p, files |-> GeneratedFiles(data), exit |-> "0"]
     /\ UNCHANGED <<processed, sidebar, content, stats, exitCode, files>>
     /\ UNCHANGED detectorVars
     /\ UNCHANGED parserVars
     /\ UNCHANGED synthVars

\* the links of a tag group: its overview, then one per member endpoint
RECURSIVE TagLinks(_)
TagLinks(tagList) ==
  IF tagList = <<>> THEN <<>>
  ELSE LET tag == Head(tagList)
           tagSlug == kebabCase(tag.name)
       IN << <<"api-reference", "endpoints", tagSlug>> >>
          \o [i \in DOMAIN tag.endpoints |->
                <<"api-reference", "endpoints", tagSlug, tag.endpoints[i].slug>>]
          \o TagLinks(Tail(tagList))

\* generateApiReferenceSection: the links of the section, in order
generateApiReferenceSection(data) ==
  << <<"api-reference", "overview">>,
     <<"api-reference", "authentication">>,
     <<"api-reference", "pagination">>,
     <<"api-reference", "endpoints">> >>
  \o TagLinks(data.tags)

\* NavigationUpdater.update() on the specification file p
UpdateNavigation(p) ==
  LET data == parseSpec(files[p])
  IN /\ sidebar' = IF data.kind = "throw"
                   THEN [specPath |-> p, links |-> <<>>, exit |-> "1"]
                   ELSE [specPath |-> p, links |-> generateApiReferenceSection(data),
                         exit |-> "0"]
     /\ UNCHANGED <<processed, written, content, stats, exitCode, files>>
     /\ UNCHANGED detectorVars
     /\ UNCHANGED parserVars
     /\ UNCHANGED synthVars

(***************************************************************************)
(* OpenAPIParser.processParameters and processRequestBody, on structured   *)
(* parameter lists and request bodies.  A parameter and a request body are *)
(* records of the keys they have; the value a call returns is tagged like  *)
(* the values of the generator.                                            *)
(***************************************************************************)
\* the keys of the object literal processed
BucketKeys == {"path", "query", "header", "formData"}

\* the keys an object literal inherits from Object.prototype
ObjectPrototypeKeys ==
  {"constructor", "toString", "toLocaleString", "valueOf", "hasOwnProperty",
   "isPrototypeOf", "propertyIsEnumerable", "__proto__"}

\* operation.requestBody of an operation that has none
NoRequestBody == [isUndefined |-> TRUE]

\* x || y for strings and undefined
Either(x, y) == IF x \in {Undef, ""} THEN y ELSE x

\* processedParam in processParameters
processedParam(param) ==
  [name |-> Get(param, "name"),
   type |-> Either(Get(param, "type"), "string"),
   format |-> Get(param, "format"),
   required |-> Has(param, "required") /\ param.required,
   description |-> Either(Get(param, "description"), ""),
   example |-> Either(Get(param, "xExample"), Get(param, "example")),
   enum |-> Get(param, "enum"),
   default |-> Get(param, "default")]

\* the key param.in selects in processed
bucketOf(param) == Get(param, "in")

\* parameters.forEach in processParameters: processed[param.in] of an own key
\* is the bucket, of an inherited key a value without push
RECURSIVE pushParameters(_, _)
pushParameters(buckets, parameters) ==
  IF parameters = <<>> THEN buckets
  ELSE LET param == Head(parameters)
           in == bucketOf(param)
       IN IF in \in {Undef, ""} THEN pushParameters(buckets, Tail(parameters))
          ELSE IF in \in BucketKeys
          THEN pushParameters([buckets EXCEPT ![in] = Append(@, processedParam(param))],
                              Tail(parameters))
          ELSE IF in \in ObjectPrototypeKeys THEN Err("TypeError")
          ELSE pushParameters(buckets, Tail(parameters))

processParameters(parameters) ==
  pushParameters([t |-> "parameters", path |-> <<>>, query |-> <<>>,
                  header |-> <<>>, formData |-> <<>>], parameters)

\* processRequestBodyProperties: the flat list of the properties of schema
RECURSIVE processRequestBodyProperties(_, _, _)
RECURSIVE flattenProperties(_, _, _)
flattenProperties(props, parentKey, required) ==
  IF props = <<>> THEN <<>>
  ELSE LET propName == Head(props)[1]
           propSchema == Head(props)[2]
           fullName == IF parentKey # "" THEN parentKey \o "." \o propName
                       ELSE propName
           property == [name |-> fullName,
                        required |-> propName \in Range(required),
                        description |-> Either(Get(propSchema, "description"), ""),
                        type |-> Either(Get(propSchema, "type"), "string"),
                        format |-> Get(propSchema, "format"),
                        enum |-> Get(propSchema, "enum")]
           nested == IF Get(propSchema, "type") = "object"
                        /\ Has(propSchema, "properties")
                     THEN processRequestBodyProperties(
                            propSchema, fullName,
                            IF Has(propSchema, "required") THEN propSchema.required
                            ELSE <<>>)
                     ELSE <<>>
       IN <<property>> \o nested \o flattenProperties(Tail(props), parentKey, required)

processRequestBodyProperties(schema, parentKey, parentRequired) ==
  IF schema = NoSchema \/ ~Has(schema, "properties") THEN <<>>
  ELSE flattenProperties(schema.properties, parentKey,
                         IF Has(schema, "required") THEN schema.required
                         ELSE parentRequired)

\* extractBodyExamples: the table of the named examples
extractBodyExamples(requestBody) ==
  IF Has(requestBody, "examples") THEN requestBody.examples
  ELSE IF Has(requestBody, "example") /\ Truthy(requestBody.example)
  THEN << <<"default", requestBody.example>> >>
  ELSE <<>>

\* generateExampleFromSchema: the parser's own example of a schema
RECURSIVE generateExampleFromSchema(_)
RECURSIVE exampleProperties(_)
exampleProperties(props) ==
  IF props = <<>> THEN Obj(<<>>)
  ELSE LET propName == Head(props)[1]
           propSchema == Head(props)[2]
           type == IF propSchema = NoSchema THEN Undef ELSE Get(propSchema, "type")
           v == IF propSchema = NoSchema THEN Err("TypeError")
                ELSE IF Has(propSchema, "example") THEN propSchema.example
                ELSE IF type = "string" THEN Str("example-" \o propName)
                ELSE IF type \in {"number", "integer"} THEN Num("123")
                ELSE IF type = "boolean" THEN Bool(TRUE)
                ELSE IF type = "array"
                THEN LET item == generateExampleFromSchema(
                                   IF Has(propSchema, "items") THEN propSchema.items
                                   ELSE NoSchema)
                     IN IF IsError(item) THEN item ELSE Arr(<<item>>)
                ELSE generateExampleFromSchema(propSchema)
           rest == exampleProperties(Tail(props))
       IN IF IsError(v) THEN v
          ELSE IF IsError(rest) THEN rest
          ELSE IF type \in {"string", "number", "integer", "boolean", "array", "object"}
                  \/ Has(propSchema, "example")
          THEN Obj(<< <<propName, v>> >> \o rest.props)
          ELSE rest

generateExampleFromSchema(schema) ==
  IF schema = NoSchema THEN Null
  ELSE IF Has(schema, "example") THEN schema.example
  ELSE IF Get(schema, "type") = "object" /\ Has(schema, "properties")
  THEN exampleProperties(schema.properties)
  ELSE IF Get(schema, "type") = "array" /\ Has(schema, "items")
          /\ schema.items # NoSchema
  THEN LET item == generateExampleFromSchema(schema.items)
       IN IF IsError(item) THEN item ELSE Arr(<<item>>)
  ELSE Null

\* generateRequestBodyExample: what generateExampleFromSchema throws is caught
generateRequestBodyExample(schema) ==
  IF schema = NoSchema THEN Null
  ELSE LET example == generateExampleFromSchema(schema)
       IN IF IsError(example) THEN Null ELSE example

\* the object processRequestBody builds from a request body object or from a
\* body parameter
bodyFrom(source) ==
  LET schema == IF Has(source, "schema") THEN source.schema ELSE NoSchema
  IN [t |-> "body",
      required |-> Has(source, "required") /\ source.required,
      description |-> Either(Get(source, "description"), ""),
      schema |-> schema,
      properties |-> processRequestBodyProperties(schema, "", <<>>),
      examples |-> extractBodyExamples(source),
      example |-> generateRequestBodyExample(schema)]

\* parameters.find(param => param.in === 'body')
RECURSIVE findBodyParam(_)
findBodyParam(parameters) ==
  IF parameters = <<>> THEN NoRequestBody
  ELSE IF Get(Head(parameters), "in") = "body" THEN Head(parameters)
  ELSE findBodyParam(Tail(parameters))

processRequestBody(requestBody, parameters) ==
  IF requestBody # NoRequestBody /\ Has(requestBody, "schema")
     /\ requestBody.schema # NoSchema
  THEN bodyFrom(requestBody)
  ELSE IF findBodyParam(parameters) # NoRequestBody
  THEN bodyFrom(findBodyParam(parameters))
  ELSE Null

\* the schemas of the request bodies
BodySchemas ==
  {[type |-> "object",
    properties |-> << <<"id", [type |-> "string", format |-> "uuid"]>>,
                      <<"nickname", [type |-> "string", xNullable |-> TRUE]>> >>,
    required |-> <<"id">>],
   [type |-> "object",
    properties |-> << <<"count", [type |-> "integer"]>>,
                      <<"owner", [type |-> "object",
                                  properties |-> << <<"id", [type |-> "string"]>> >>]>> >>],
   [type |-> "string"],
   [type |-> "object", example |-> Obj(<< <<"id", Str("x")>> >>)],
   Ref("User")}

\* the parameters of an operation
Locations == {"path", "query", "header", "formData", "cookie", "constructor"}

Parameters ==
  {[name |-> n, in |-> l] : n \in {"p", "q"}, l \in Locations}
  \cup {[name |-> "p"], [name |-> "p", in |-> "query", required |-> TRUE]}
  \cup {[name |-> "body", in |-> "body"]}
  \cup {[name |-> "body", in |-> "body", schema |-> s] :
          s \in {[type |-> "string"], Ref("User")}}

MaxParams == 2

RECURSIVE SeqsUpTo(_, _)
SeqsUpTo(S, n) ==
  IF n = 0 THEN {<<>>}
  ELSE SeqsUpTo(S, n - 1)
         \cup {Append(s, x) : s \in {q \in SeqsUpTo(S, n - 1) : Len(q) = n - 1}, x \in S}

ParameterLists == SeqsUpTo(Parameters, MaxParams)

RequestBodies ==
  {NoRequestBody, [description |-> "d"], [content |-> "{application/json}"]}
  \cup {[schema |-> s] : s \in BodySchemas}
  \cup {[schema |-> [type |-> "string"], required |-> TRUE, description |-> "d",
         example |-> Str("e")]}

\* processParameters(parameters), as processEndpoint calls it on the operation
\* at hand
ProcessParameters ==
  /\ Has(processed, "parameters")
  /\ processed' = [fn |-> "processParameters",
                   parameters |-> processed.parameters,
                   requestBody |-> processed.requestBody,
                   result |-> processParameters(processed.parameters)]
  /\ UNCHANGED <<written, sidebar, content, stats, exitCode, files>>
  /\ UNCHANGED detectorVars
  /\ UNCHANGED parserVars
  /\ UNCHANGED synthVars

\* processRequestBody(operation.requestBody, parameters), as processEndpoint
\* calls it on the operation at hand
ProcessRequestBody ==
  /\ Has(processed, "parameters")
  /\ processed' = [fn |-> "processRequestBody",
                   parameters |-> processed.parameters,
                   requestBody |-> processed.requestBody,
                   result |-> processRequestBody(processed.requestBody,
                                                 processed.parameters)]
  /\ UNCHANGED <<written, sidebar, content, stats, exitCode, files>>
  /\ UNCHANGED detectorVars
  /\ UNCHANGED parserVars
  /\ UNCHANGED synthVars

(***************************************************************************)
(* ContentValidator.  A content file is its path below contentDir without  *)
(* the extension (stem), its extension, the links of its text in order,    *)
(* and the errors the syntax and marker checks find in its text.  A link   *)
(* is the parts of its url: what it starts with, the path, whether a slash *)
(* follows the path, and the fragment.                                     *)
(***************************************************************************)
Link(prefix, base, slash, hash) ==
  [prefix |-> prefix, base |-> base, slash |-> slash, hash |-> hash, text |-> "t"]

\* match[2] of the link
urlOf(link) ==
  link.prefix \o link.base \o (IF link.slash THEN "/" ELSE "") \o link.hash

Links ==
  {Link("/", base, slash, "") :
     base \in {"guide", "api", "api/index", "missing"}, slash \in BOOLEAN}
  \cup {Link("/", "guide", TRUE, "#setup"),
        Link("//", "cdn.example.com/x", FALSE, ""),
        Link("https://", "example.com", TRUE, "")}

\* url.startsWith('/') && !url.startsWith('//')
isInternal(link) == link.prefix = "/"

\* url.endsWith('/'), for the urls of Links
endsWithSlash(url) ==
  LET link == CHOOSE l \in Links : urlOf(l) = url
  IN link.hash = "" /\ link.slash

\* path.relative(contentDir, file)
relativePath(file) == file.stem \o "." \o file.ext

\* '/' + relativePath.replace(/\.(md|mdx)$/, '/')
routeOf(file) == "/" \o file.stem \o "/"

\* scanFiles: this.stats.existingFiles after the scan
scanFiles(existingFiles, dir) ==
  existingFiles \cup {routeOf(dir[i]) : i \in DOMAIN dir}

\* extractInternalLinks: the entries a file adds to this.stats.internalLinks
extractInternalLinks(file) ==
  LET internal == SelectSeq(file.links, isInternal)
  IN [i \in DOMAIN internal |->
        [file |-> relativePath(file), url |-> urlOf(internal[i]),
         text |-> internal[i].text]]

\* addError
addError(file, message) == [file |-> file, message |-> message, type |-> "error"]

brokenMessage(link) ==
  "Broken internal link: " \o link.url \o " (text: \"" \o link.text \o "\")"

\* validateFiles: the statistics after every file of dir was validated
RECURSIVE validateFiles(_, _)
validateFiles(st, dir) ==
  IF dir = <<>> THEN st
  ELSE LET file == Head(dir)
           after == [st EXCEPT
                       !.errors = @ \o [i \in DOMAIN file.errors |->
                                          addError(relativePath(file), file.errors[i])],
                       !.internalLinks = @ \o extractInternalLinks(file),
                       !.filesChecked = @ + 1]
       IN validateFiles(after, Tail(dir))

\* the target validateLinks looks up for a link
targetPath(link) == IF endsWithSlash(link.url) THEN link.url ELSE link.url \o "/"

\* validateLinks: the statistics after every link was looked up
RECURSIVE validateLinks(_, _)
validateLinks(st, links) ==
  IF links = <<>> THEN st
  ELSE LET link == Head(links)
           after == IF targetPath(link) \notin st.existingFiles
                    THEN [st EXCEPT !.errors =
                            Append(@, addError(link.file, brokenMessage(link)))]
                    ELSE st
       IN validateLinks(after, Tail(links))

\* validate(): the statistics when the process ends
validate(dir) ==
  LET scanned == [NewStats EXCEPT !.existingFiles = scanFiles(@, dir)]
      checked == validateFiles([scanned EXCEPT !.existingFiles = scanFiles(@, dir)], dir)
  IN validateLinks(checked, checked.internalLinks)

\* the content directories: pages that are link targets, and a page of links
MaxLinks == 2

TargetFiles ==
  << [stem |-> "api/index", ext |-> "mdx", links |-> <<>>, errors |-> <<>>],
     [stem |-> "api/sites", ext |-> "mdx", links |-> <<>>, errors |-> <<>>],
     [stem |-> "guide", ext |-> "md", links |-> <<>>, errors |-> <<>>],
     [stem |-> "guide/index", ext |-> "md", links |-> <<>>, errors |-> <<>>] >>

\* the files of TargetFiles at the positions of keep, in the order of glob
FilesAt(keep) ==
  SelectSeq(TargetFiles, LAMBDA file : \E i \in keep : TargetFiles[i] = file)

ContentDirs ==
  {FilesAt(keep) \o << [stem |-> "page", ext |-> "mdx", links |-> links,
                        errors |-> errors] >> :
     keep \in SUBSET (DOMAIN TargetFiles),
     links \in SeqsUpTo(Links, MaxLinks),
     errors \in {<<>>, <<"Unclosed frontmatter block">>}}

\* node validate-content.js on the content directory
Validate ==
  /\ stats' = validate(content)
  /\ exitCode' = IF Len(validate(content).errors) > 0 THEN "1" ELSE "0"
  /\ UNCHANGED <<processed, written, sidebar, content, files>>
  /\ UNCHANGED detectorVars
  /\ UNCHANGED parserVars
  /\ UNCHANGED synthVars

\* the state of the programs before any call, but for the operation at hand
\* and the content directory
IdleButInputs ==
  /\ changes = NewChanges
  /\ tmp = NoFiles
  /\ ret = NoReturn
  /\ pc = "ready"
  /\ calls = 0
  /\ args = <<0, 0>>
  /\ specPath = 0
  /\ spec = NullSpec
  /\ endpoints = <<>>
  /\ tags = <<>>
  /\ schemas = <<>>
  /\ returns = <<>>
  /\ parses = 0
  /\ now = 0
  /\ run = NoRun
  /\ prevRun = NoRun
  /\ written = NotGenerated
  /\ sidebar = NotUpdated
  /\ stats = NewStats
  /\ exitCode = "none"

\* the state of the programs before any call
Idle ==
  /\ IdleButInputs
  /\ processed = NoCall
  /\ content = <<>>

Init ==
  /\ files \in [1..2 -> Docs]
  /\ Idle

\* the generator reads no file
SynthInit ==
  /\ files = [i \in 1..2 |-> [kind |-> "missing"]]
  /\ Idle

Next ==
  \E oldSpecPath \in 1..2, newSpecPath \in 1..2 :
    \/ DetectChangesOk(oldSpecPath, newSpecPath)
    \/ DetectChangesFail(oldSpecPath, newSpecPath)

Spec == Init /\ [][Next]_vars

ParserNext ==
  \/ \E p \in 1..2 : NewParser(p)
  \/ ParseSpecUnreadable
  \/ ParseSpecInvalid
  \/ ParseSpecOk
  \/ ParseSpecExtractThrows

ParserSpec == Init /\ [][ParserNext]_vars

SynthNext ==
  \/ Tick
  \/ \E schema \in Schemas : Generate(schema)

SynthSpec == SynthInit /\ [][SynthNext]_vars

DocsNext ==
  \E p \in 1..2 :
    \/ GenerateDocs(p)
    \/ UpdateNavigation(p)

DocsSpec == Init /\ [][DocsNext]_vars

\* an operation is at hand: its parameters and its request body
EndpointInit ==
  /\ files = [i \in 1..2 |-> [kind |-> "missing"]]
  /\ IdleButInputs
  /\ content = <<>>
  /\ processed \in {[fn |-> "none", parameters |-> parameters,
                      requestBody |-> requestBody] :
                       parameters \in ParameterLists, requestBody \in RequestBodies}

EndpointNext ==
  \/ ProcessParameters
  \/ ProcessRequestBody

EndpointSpec == EndpointInit /\ [][EndpointNext]_vars

\* a content directory is on disk
ValidateInit ==
  /\ files = [i \in 1..2 |-> [kind |-> "missing"]]
  /\ IdleButInputs
  /\ processed = NoCall
  /\ content \in ContentDirs

ValidateNext == Validate

ValidateSpec == ValidateInit /\ [][ValidateNext]_vars

(***************************************************************************)
(* Vocabulary of the properties: the documents of the last detectChanges   *)
(* call, read directly (not through the detector's own extraction).        *)
(***************************************************************************)
OldDoc == files[args[1]]
NewDoc == files[args[2]]
Succeeded == calls >= 1 /\ ret.kind = "result"
FreshRun == calls = 1 /\ ret.kind = "result"

PathsOf(doc) == IF Has(doc, "paths") THEN doc.paths ELSE <<>>
\* the (VERB, path) keys of the recognized operations of a document
OperationKeys(doc) ==
  UNION {{<<toUpperCase(PathsOf(doc)[i][2][j][1]), PathsOf(doc)[i][1]>> :
            j \in {k \in DOMAIN PathsOf(doc)[i][2] :
                     PathsOf(doc)[i][2][k][1] \in HttpMethods}} :
         i \in DOMAIN PathsOf(doc)}
OperationAt(doc, key) ==
  LET i == CHOOSE i \in DOMAIN PathsOf(doc) : PathsOf(doc)[i][1] = key[2]
      item == PathsOf(doc)[i][2]
      j == CHOOSE j \in DOMAIN item : toUpperCase(item[j][1]) = key[1]
  IN item[j][2]
KeyOf(e) == <<e.method, e.path>>
KeysOf(list) == {KeyOf(list[i]) : i \in DOMAIN list}
NoDuplicates(list) == \A i, j \in DOMAIN list : list[i] = list[j] => i = j
KeyList(list) == [i \in DOMAIN list |-> KeyOf(list[i])]
BucketsEmpty ==
  /\ changes.endpoints.added = <<>> /\ changes.endpoints.removed = <<>>
  /\ changes.endpoints.modified = <<>>
  /\ changes.schemas.added = <<>> /\ changes.schemas.removed = <<>>
  /\ changes.schemas.modified = <<>>
Facets == {"summary", "parameters", "requestBody", "responses"}
\* a facet's value in a document: an absent parameter list is the empty list,
\* an absent response table the empty table
FacetValue(op, f) ==
  CASE f = "parameters" -> OrElse(Get(op, f), "[]")
    [] f = "responses" -> OrElse(Get(op, f), "{}")
    [] OTHER -> Get(op, f)
\* the synthesizer's definitions table (spec.definitions)
DefinitionNames(doc) ==
  IF Has(doc, "definitions") THEN Range(Keys(doc.definitions)) ELSE {}
\* a document fails to load in the sense of the loader contract
FailsToLoad(doc) ==
  \/ doc.kind # "object"
  \/ ~Has(doc, "swagger") /\ ~Has(doc, "openapi")
  \/ ~Has(doc, "paths")

AddedRemovedAreSetDifferences ==
  FreshRun =>
     /\ KeysOf(changes.endpoints.added) = OperationKeys(NewDoc) \ OperationKeys(OldDoc)
     /\ KeysOf(changes.endpoints.removed) = OperationKeys(OldDoc) \ OperationKeys(NewDoc)
     /\ NoDuplicates(KeyList(changes.endpoints.added))
     /\ NoDuplicates(KeyList(changes.endpoints.removed))
     /\ KeysOf(changes.endpoints.added) \cap KeysOf(changes.endpoints.removed) = {}
     /\ KeysOf(changes.endpoints.modified)
          \cap (KeysOf(changes.endpoints.added) \cup KeysOf(changes.endpoints.removed)) = {}

\* a run that reported an added endpoint together with a removed one, or an
\* added verb on a path the old document already has
AddedRemovedWitness ==
  /\ FreshRun
  /\ changes.endpoints.added # <<>>
  /\ \/ changes.endpoints.removed # <<>>
     \/ \E i \in DOMAIN changes.endpoints.added :
          \E k \in OperationKeys(OldDoc) : k[2] = changes.endpoints.added[i].path

(***************************************************************************)
(* C3                                                                      *)
(***************************************************************************)
BreakingOfEndpoint(e) ==
  {i \in DOMAIN changes.breaking :
     /\ changes.breaking[i].type = "removed_endpoint"
     /\ changes.breaking[i].method = e.method
     /\ changes.breaking[i].path = e.path}
BreakingOfSchema(n) ==
  {i \in DOMAIN changes.breaking :
     /\ changes.breaking[i].type = "removed_schema"
     /\ changes.breaking[i].schema = n}

\* C3: after the first detectChanges call of a detector, the breaking list has
\* exactly one high-severity entry per removed endpoint, exactly one
\* medium-severity entry per removed schema and nothing else, and
\* hasBreakingChanges is true iff the list is non-empty.
BreakingIsExactlyRemovals ==
  FreshRun =>
     /\ \A i \in DOMAIN changes.endpoints.removed :
          /\ Cardinality(BreakingOfEndpoint(changes.endpoints.removed[i])) = 1
          /\ \A b \in BreakingOfEndpoint(changes.endpoints.removed[i]) :
               changes.breaking[b].severity = "high"
     /\ \A i \in DOMAIN changes.schemas.removed :
          /\ Cardinality(BreakingOfSchema(changes.schemas.removed[i])) = 1
          /\ \A b \in BreakingOfSchema(changes.schemas.removed[i]) :
               changes.breaking[b].severity = "medium"
     /\ Len(changes.breaking)
          = Len(changes.endpoints.removed) + Len(changes.schemas.removed)
     /\ ret.hasBreakingChanges = (changes.breaking # <<>>)
     /\ tmp.breakingChanges = toString(changes.breaking # <<>>)

\* a run that reported both an added and a removed endpoint
BreakingEndpointWitness ==
  /\ FreshRun
  /\ changes.endpoints.removed # <<>> /\ changes.endpoints.added # <<>>
  /\ ret.hasBreakingChanges

(***************************************************************************)
(* C4                                                                      *)
(***************************************************************************)
\* C4: schema diffing is keyed by schema name over the definitions table the
\* synthesizer resolves references against: a name the old document's table
\* has and the new one's lacks is in schemas.removed and has a
\* medium-severity breaking change, and a name only the new one has is in
\* schemas.added.
SchemaDiffOverDefinitions ==
  FreshRun =>
     /\ \A n \in DefinitionNames(OldDoc) \ DefinitionNames(NewDoc) :
          /\ n \in Range(changes.schemas.removed)
          /\ \E b \in DOMAIN changes.breaking :
               /\ changes.breaking[b].type = "removed_schema"
               /\ changes.breaking[b].schema = n
               /\ changes.breaking[b].severity = "medium"
     /\ \A n \in DefinitionNames(NewDoc) \ DefinitionNames(OldDoc) :
          n \in Range(changes.schemas.added)

(***************************************************************************)
(* C5                                                                      *)
(***************************************************************************)
\* paths with the responses of the operation at key left out
StripResponses(paths, key) ==
  [i \in DOMAIN paths |->
     <<paths[i][1],
       [j \in DOMAIN paths[i][2] |->
          <<paths[i][2][j][1],
            IF paths[i][1] = key[2] /\ toUpperCase(paths[i][2][j][1]) = key[1]
            THEN Without(paths[i][2][j][2], "responses")
            ELSE paths[i][2][j][2]>>]>>]
\* two documents that are identical except for the responses of the operation
\* at key
OnlyResponsesDiffer(old, new, key) ==
  /\ Has(old, "paths") /\ Has(new, "paths")
  /\ Without(old, "paths") = Without(new, "paths")
  /\ key \in OperationKeys(old) \cap OperationKeys(new)
  /\ StripResponses(old.paths, key) = StripResponses(new.paths, key)
  /\ FacetValue(OperationAt(old, key), "responses")
       # FacetValue(OperationAt(new, key), "responses")

\* C5: after the first detectChanges call of a detector, the changes list of
\* every modified record names, once each, exactly the facets among summary,
\* parameters, requestBody and responses whose value differs between the old
\* and the new operation; and two documents identical except for the
\* responses of one operation give exactly one modified record, for that
\* operation, with changes = <<"responses">>.
ModifiedFacetsExact ==
  FreshRun =>
     /\ \A i \in DOMAIN changes.endpoints.modified :
          LET m == changes.endpoints.modified[i]
              old == OperationAt(OldDoc, KeyOf(m))
              new == OperationAt(NewDoc, KeyOf(m))
          IN /\ Range(m.changes) = {f \in Facets : FacetValue(old, f) # FacetValue(new, f)}
             /\ NoDuplicates(m.changes)
     /\ \A key \in OperationKeys(OldDoc) \cap OperationKeys(NewDoc) :
          OnlyResponsesDiffer(OldDoc, NewDoc, key) =>
             /\ Len(changes.endpoints.modified) = 1
             /\ KeyOf(changes.endpoints.modified[1]) = key
             /\ changes.endpoints.modified[1].changes = <<"responses">>

\* a run on documents that differ in one operation's responses only, which
\* reported a modified record
ModifiedResponsesWitness ==
  /\ FreshRun
  /\ \E key \in OperationKeys(OldDoc) \cap OperationKeys(NewDoc) :
       OnlyResponsesDiffer(OldDoc, NewDoc, key)
  /\ changes.endpoints.modified # <<>>

\* a run that reported a modified record with two facets
ModifiedTwoFacetsWitness ==
  /\ FreshRun
  /\ \E i \in DOMAIN changes.endpoints.modified :
       Len(changes.endpoints.modified[i].changes) = 2

(***************************************************************************)
(* C6                                                                      *)
(***************************************************************************)
\* C6: after the first detectChanges call of a detector, every (verb, path)
\* of both documents whose two operations differ in any field has a modified
\* record, and hasChanges is true.
FullPayloadCompared ==
  FreshRun =>
     \A key \in OperationKeys(OldDoc) \cap OperationKeys(NewDoc) :
        OperationAt(OldDoc, key) # OperationAt(NewDoc, key) =>
           /\ key \in KeysOf(changes.endpoints.modified)
           /\ ret.hasChanges

DiffFailureIsFailSafe ==
  (calls >= 1 /\ (FailsToLoad(OldDoc) \/ FailsToLoad(NewDoc))) =>
     /\ tmp.hasChanges = "true"
     /\ tmp.breakingChanges = "false"
     /\ tmp.summary.kind = "error"
     /\ pc = "exited"

(***************************************************************************)
(* C9                                                                      *)
(***************************************************************************)
\* C9: after every detectChanges call that returns, the buckets, the breaking
\* list and the flags are those a new detector gives for the call's two
\* documents.
ReportIsFreshPerCall ==
  Succeeded =>
     LET fresh == Compare(NewChanges, loadSpec(OldDoc), loadSpec(NewDoc))
     IN /\ changes.endpoints = fresh.endpoints
        /\ changes.schemas = fresh.schemas
        /\ changes.breaking = fresh.breaking
        /\ ret.hasChanges = hasSignificantChanges(fresh)
        /\ ret.hasBreakingChanges = (fresh.breaking # <<>>)

(***************************************************************************)
(* C10                                                                     *)
(***************************************************************************)
\* C10: every parseSpec call on a parser returns a model identical to the one
\* its first call returned.
ExtractionIsIdempotent ==
  \A i \in DOMAIN returns : returns[i] = returns[1]

(***************************************************************************)
(* Vocabulary of the parser properties: the document the parser reads and   *)
(* what its first parseSpec call gave.                                     *)
(***************************************************************************)
ParsedDoc == files[specPath]
FirstParse == returns[1]
\* the (path entry, key) positions of the path table
PathKeyPairs(doc) ==
  UNION {{<<i, j>> : j \in DOMAIN PathsOf(doc)[i][2]} : i \in DOMAIN PathsOf(doc)}
RecognizedPairs(doc) ==
  {pr \in PathKeyPairs(doc) : PathsOf(doc)[pr[1]][2][pr[2]][1] \in HttpMethods}
HasMarker(doc) == Has(doc, "swagger") \/ Has(doc, "openapi")
ValidationMessages == {"missing version field", "missing paths"}

TwoPathsWitness ==
  /\ parses >= 1 /\ FirstParse.kind = "model"
  /\ Len(PathsOf(ParsedDoc)) = 2
  /\ Len(FirstParse.endpoints) = 2

(***************************************************************************)
(* C12                                                                     *)
(***************************************************************************)
\* C12: the first parseSpec call on a parsed document fails with a validation
\* error whenever the document has no version marker or no non-empty path
\* table, and a document that lacks other metadata (info) does not fail with
\* a non-validation error.
LoaderValidation ==
  (parses >= 1 /\ ParsedDoc.kind = "object") =>
     /\ (\/ ~HasMarker(ParsedDoc)
         \/ ~Has(ParsedDoc, "paths")
         \/ PathsOf(ParsedDoc) = <<>>)
          => (FirstParse.kind = "throw" /\ FirstParse.message \in ValidationMessages)
     /\ ~Has(ParsedDoc, "info") => FirstParse # Thrown("TypeError")

(***************************************************************************)
(* C13                                                                     *)
(***************************************************************************)
\* the keys of the recognized operations whose processing does not fail
ProcessableKeys(doc) ==
  {key \in OperationKeys(doc) : ~processEndpointThrows(OperationAt(doc, key))}

\* C13: when processing one operation fails during the first parseSpec call
\* on a valid document, extraction does not abort: the call returns a model
\* that holds every other operation of the document.
PartialFailureSkipsOperation ==
  (/\ parses >= 1 /\ ParsedDoc.kind = "object"
   /\ Has(ParsedDoc, "info") /\ HasMarker(ParsedDoc) /\ PathsOf(ParsedDoc) # <<>>) =>
     /\ FirstParse.kind = "model"
     /\ KeysOf(FirstParse.endpoints) = ProcessableKeys(ParsedDoc)

(***************************************************************************)
(* Vocabulary of the generator properties.                                 *)
(***************************************************************************)
Ran == run # NoRun
TypeOf(schema) == Get(schema, "type")
PropertiesOf(schema) == IF Has(schema, "properties") THEN schema.properties ELSE <<>>
Names(entries) == [i \in DOMAIN entries |-> entries[i][1]]
\* the definition names a schema refers to, at any depth of the schema
RECURSIVE RefsOf(_)
RefsOf(schema) ==
  IF schema = NoSchema THEN {}
  ELSE IF Has(schema, "ref") THEN {refName(schema.ref)}
  ELSE UNION {RefsOf(PropertiesOf(schema)[i][2]) : i \in DOMAIN PropertiesOf(schema)}
         \cup (IF Has(schema, "items") THEN RefsOf(schema.items) ELSE {})
DefRefs(name) == IF name \in DOMAIN definitions THEN RefsOf(definitions[name]) ELSE {}
RECURSIVE Reach(_, _)
Reach(names, steps) ==
  IF steps = 0 THEN names
  ELSE Reach(names \cup UNION {DefRefs(name) : name \in names}, steps - 1)
\* the names reachable from a set of names through the definitions table
Reachable(names) == Reach(names, Cardinality(DOMAIN definitions))
\* the schema refers to a name that the definitions table lacks
Dangling(schema) == \E name \in RefsOf(schema) : name \notin DOMAIN definitions
\* the schema reaches a definition that refers back to itself
Cyclic(schema) ==
  \E name \in Reachable(RefsOf(schema)) : name \in Reachable(DefRefs(name))

(***************************************************************************)
(* C14                                                                     *)
(***************************************************************************)
\* C14: generateFromSchema on a schema that holds a reference whose name the
\* definitions table lacks fails with a resolution error; it gives no value.
DanglingReferenceFails ==
  (Ran /\ Dangling(run.schema)) => run.value = Err("SchemaResolutionError")

(***************************************************************************)
(* C15                                                                     *)
(***************************************************************************)
\* C15: generateFromSchema gives a value on every schema whose references
\* reach no cycle, and on a schema that reaches a self-referential or
\* mutually referential definition it ends with a cycle error, not with the
\* call stack exhausted.
SynthesisGuardsCycles ==
  Ran =>
     /\ Cyclic(run.schema) => run.value = Err("CyclicReferenceError")
     /\ ~Cyclic(run.schema) => ~IsError(run.value)

(***************************************************************************)
(* C16                                                                     *)
(***************************************************************************)
RequiredSet(schema) == IF Has(schema, "required") THEN Range(schema.required) ELSE {}
MarkedNullable(propSchema) == Has(propSchema, "xNullable") /\ propSchema.xNullable
\* the declared properties that are not both marked nullable and optional
KeptProperties(schema) ==
  LET Kept(entry) == ~(MarkedNullable(entry[2]) /\ entry[1] \notin RequiredSet(schema))
  IN SelectSeq(PropertiesOf(schema), Kept)

LiteralFormats == {"uuid", "email", "date-time", "uri"}

\* C17: for a string schema with no example, no format that has a literal of
\* its own, and a non-empty enum, generateFromSchema gives the first enum
\* member.
StringEnumStep ==
  (/\ Ran /\ TypeOf(run.schema) = "string"
   /\ ~Has(run.schema, "example")
   /\ Get(run.schema, "format") \notin LiteralFormats
   /\ Has(run.schema, "enum") /\ run.schema.enum # <<>>) =>
     run.value = Str(run.schema.enum[1])

(***************************************************************************)
(* C18                                                                     *)
(***************************************************************************)
PlainString(propSchema) ==
  /\ TypeOf(propSchema) = "string"
  /\ ~Has(propSchema, "example") /\ ~Has(propSchema, "format") /\ ~Has(propSchema, "enum")

\* C18: in the object generateFromSchema gives for an object schema, the value
\* of a string property with no example, no format and no enum is the one the
\* keyword match on the property's own name gives.
NameHeuristic ==
  (Ran /\ TypeOf(run.schema) = "object" /\ run.value.t = "obj") =>
     \A i \in DOMAIN run.value.props :
        LET propName == run.value.props[i][1]
            entry == CHOOSE e \in Range(run.schema.properties) : e[1] = propName
        IN PlainString(entry[2]) =>
             run.value.props[i][2] = Str(generateStringByName(entry[2], propName))

(***************************************************************************)
(* C19                                                                     *)
(***************************************************************************)
\* what the items child of an array schema synthesizes to
ItemValue(schema, t) ==
  IF Has(schema, "items") THEN generateFromSchema(schema.items, 1, t) ELSE Null

\* C19: for an array schema whose items child synthesizes to a non-null value
\* v, generateFromSchema gives [v]; it gives [] only when the items child is
\* absent or synthesizes to nothing.
ArraySingleElement ==
  (Ran /\ TypeOf(run.schema) = "array" /\ ~IsError(run.value)) =>
     IF ItemValue(run.schema, run.at) # Null
     THEN run.value = Arr(<<ItemValue(run.schema, run.at)>>)
     ELSE run.value = Arr(<<>>)

(***************************************************************************)
(* C20                                                                     *)
(***************************************************************************)
\* C20: two generateFromSchema calls on the same schema give the same value,
\* whatever the times of the calls.
SynthesisIsDeterministic ==
  (Ran /\ prevRun # NoRun /\ run.schema = prevRun.schema) =>
     run.value = prevRun.value

(***************************************************************************)
(* C29                                                                     *)
(***************************************************************************)
\* C29: after a detectChanges call that returns, every record of
\* endpoints.modified has a changes list that names at least one facet.
ModifiedNeverEmpty ==
  Succeeded =>
     \A i \in DOMAIN changes.endpoints.modified :
        changes.endpoints.modified[i].changes # <<>>

(***************************************************************************)
(* C24                                                                     *)
(***************************************************************************)
FirstModel == parses >= 1 /\ FirstParse.kind = "model"
\* the categories of the returned model that hold the endpoint
CategoriesOf(model, e) ==
  {i \in DOMAIN model.tags : \E j \in DOMAIN model.tags[i].endpoints :
                                model.tags[i].endpoints[j] = e}

\* C24: every endpoint of the model the first parseSpec call returns has a
\* non-empty tag list and is a member of at least one category.
EveryEndpointTagged ==
  FirstModel =>
     \A i \in DOMAIN FirstParse.endpoints :
        /\ FirstParse.endpoints[i].tags # <<>>
        /\ CategoriesOf(FirstParse, FirstParse.endpoints[i]) # {}

(***************************************************************************)
(* C25                                                                     *)
(***************************************************************************)
\* the endpoints of a list that declare the tag, in the order of the list
Declaring(eps, tag) == SelectSeq(eps, LAMBDA e : tag \in Range(e.tags))

\* C25: in the model the first parseSpec call returns there is exactly one
\* category per distinct tag of the endpoints, each category lists exactly
\* the endpoints that declare its tag, each once, in extraction order, and
\* each endpoint appears once in the endpoint list.
CategoryGrouping ==
  FirstModel =>
     LET eps == FirstParse.endpoints
         cats == FirstParse.tags
     IN /\ {cats[i].name : i \in DOMAIN cats} = UNION {Range(eps[j].tags) : j \in DOMAIN eps}
        /\ \A i, j \in DOMAIN cats : cats[i].name = cats[j].name => i = j
        /\ \A i \in DOMAIN cats : cats[i].endpoints = Declaring(eps, cats[i].name)
        /\ \A j \in DOMAIN eps :
              Cardinality(CategoriesOf(FirstParse, eps[j])) = Cardinality(Range(eps[j].tags))
        /\ NoDuplicates(KeyList(eps))

(***************************************************************************)
(* C23                                                                     *)
(***************************************************************************)
\* a text in kebab case: lower-case words joined by hyphens; for a path, the
\* braces are stripped first and the segments are the words
KebabCased(text) ==
  CASE text = "opA" -> "op-a"
    [] text = "opB" -> "op-b"
    [] text = "/a" -> "a"
    [] text = "/b" -> "b"
    [] text = "/sites/{site_id}" -> "sites-site-id"
    [] OTHER -> text
LowerVerb(method) == CHOOSE m \in HttpMethods : toUpperCase(m) = method
\* the models returned so far
Models == {returns[i] : i \in {j \in DOMAIN returns : returns[j].kind = "model"}}

\* C23: the slug of every endpoint of the first returned model is the
\* kebab-cased operationId when there is one, otherwise the lower-case verb
\* joined to the kebab-cased path; endpoints with the same operationId, verb
\* and path have the same slug.
SlugDerivation ==
  /\ FirstModel =>
       \A i \in DOMAIN FirstParse.endpoints :
          LET e == FirstParse.endpoints[i]
          IN e.slug = IF e.operationId # Undef
                      THEN KebabCased(e.operationId)
                      ELSE LowerVerb(e.method) \o "-" \o KebabCased(e.path)
  /\ \A m1, m2 \in Models :
       \A i \in DOMAIN m1.endpoints, j \in DOMAIN m2.endpoints :
          (/\ m1.endpoints[i].operationId = m2.endpoints[j].operationId
           /\ m1.endpoints[i].method = m2.endpoints[j].method
           /\ m1.endpoints[i].path = m2.endpoints[j].path)
            => m1.endpoints[i].slug = m2.endpoints[j].slug

(***************************************************************************)
(* C27                                                                     *)
(***************************************************************************)
\* generate() and update() have both run on the same document
DocsAndNavigation ==
  /\ written.exit = "0" /\ sidebar.exit = "0"
  /\ files[written.specPath] = files[sidebar.specPath]
\* the sidebar links of member endpoints
EndpointLinks == {sidebar.links[i] : i \in {j \in DOMAIN sidebar.links :
                                               Len(sidebar.links[j]) = 4}}
\* the file written by generateEndpointDoc that a link leads to
FileOfLink(link) ==
  [dir |-> <<link[3]>>, name |-> link[4], ext |-> "mdx", by |-> "generateEndpointDoc"]

\* C27: when generate() and update() have run on the same document, every
\* sidebar link of a member endpoint of a category leads to a file that
\* generateEndpointDoc wrote.
NavigationMatchesFiles ==
  DocsAndNavigation =>
     \A link \in EndpointLinks : FileOfLink(link) \in Range(written.files)

(***************************************************************************)
(* C28                                                                     *)
(***************************************************************************)
PathOfFile(file) == <<file.dir, file.name, file.ext>>

\* C28: the endpoints a new parser extracts from a document have pairwise
\* different slugs, and generate() writes no file path twice: no two
\* endpoints share a file and none takes the place of a section index.
SlugUniqueness ==
  written.exit = "0" =>
     LET eps == parseSpec(files[written.specPath]).endpoints
     IN /\ \A i, j \in DOMAIN eps : eps[i].slug = eps[j].slug => i = j
        /\ \A i, j \in DOMAIN written.files :
              PathOfFile(written.files[i]) = PathOfFile(written.files[j]) => i = j

(***************************************************************************)
(* Vocabulary of the properties of processParameters and                   *)
(* processRequestBody: the last call and the parameters it was given.      *)
(***************************************************************************)
CalledParameters == processed.fn = "processParameters"
CalledRequestBody == processed.fn = "processRequestBody"

\* the names of the declared parameters whose location is bucket, in
\* declaration order
DeclaredIn(parameters, bucket) ==
  LET at == SelectSeq(parameters, LAMBDA param : Get(param, "in") = bucket)
  IN [i \in DOMAIN at |-> Get(at[i], "name")]

NamesIn(list) == [i \in DOMAIN list |-> list[i].name]

\* C21: processParameters raises no error whatever the locations of the
\* parameters are, and each of the four buckets holds exactly the declared
\* parameters of that location, in declaration order; a parameter of any
\* other location is in no bucket.
ParameterPartition ==
  CalledParameters =>
     /\ ~IsError(processed.result)
     /\ \A bucket \in BucketKeys :
           NamesIn(processed.result[bucket]) = DeclaredIn(processed.parameters, bucket)

\* the operation declares a body parameter that carries a schema
HasLegacyBody(parameters) ==
  \E i \in DOMAIN parameters :
     Get(parameters[i], "in") = "body" /\ Has(parameters[i], "schema")

\* C22: when processRequestBody is given a request body object and the
\* parameters hold a body parameter with a schema, the result is built from
\* the request body object: its description and its schema are those of the
\* object, not those of the parameter.
RequestBodyPrecedence ==
  (CalledRequestBody /\ processed.requestBody # NoRequestBody
     /\ HasLegacyBody(processed.parameters)) =>
     /\ processed.result.t = "body"
     /\ processed.result.description = Either(Get(processed.requestBody, "description"), "")
     /\ processed.result.schema = IF Has(processed.requestBody, "schema")
                                  THEN processed.requestBody.schema ELSE NoSchema

\* C26: the example of an extracted request body is the value
\* generateFromSchema of the response example generator returns for the
\* schema of the body.
RequestExampleIsSynthesized ==
  (CalledRequestBody /\ processed.result.t = "body") =>
     processed.result.example = generateFromSchema(processed.result.schema, 0, now)

(***************************************************************************)
(* Vocabulary of the properties of the validator: the internal links of    *)
(* the content directory and the files a link leads to.                    *)
(***************************************************************************)
Validated == exitCode # "none"

\* the internal links of the files of the content directory
ContentLinks ==
  {link \in Links : isInternal(link)
                    /\ \E i \in DOMAIN content : link \in Range(content[i].links)}

\* the file is the page of the link's path: path.md(x) or path/index.md(x)
Serves(file, link) ==
  file.stem = link.base \/ file.stem = link.base \o "/index"

Served(link) == \E i \in DOMAIN content : Serves(content[i], link)

\* the error validateLinks records for the link
BrokenLinkError(error, link) ==
  error.message = brokenMessage([url |-> urlOf(link), text |-> link.text])

\* C30: after validate, every broken-link error is about a link whose path no
\* file of the content directory serves, /dir/ being served by dir/index.md
\* and dir/index.mdx too; when every internal link is served and no file has
\* an error of its own, validate does not exit with failure.
LinkValidationSoundness ==
  Validated =>
     /\ \A i \in DOMAIN stats.errors :
           \A link \in ContentLinks :
              BrokenLinkError(stats.errors[i], link) => ~Served(link)
     /\ ((\A link \in ContentLinks : Served(link))
           /\ (\A i \in DOMAIN content : content[i].errors = <<>>))
          => exitCode = "0"

====
